---- MODULE Spec2Model ----
(***************************************************************************)
(* Model of the PAI API client (PAIApiClient) of                           *)
(* src/frontend/src/app/page.tsx: the axios response interceptor with its  *)
(* retry / linear backoff logic, the transformation of failures to the     *)
(* APIError format, and the five public operations; and of the dashboard   *)
(* (Home) of src/unnamed/part_000: handleAnalyze, handleGetSignals,        *)
(* handleFetchNews and fetchStats, which share the error state.            *)
(*                                                                         *)
(* JavaScript values are modelled as tagged records, so that values of     *)
(* different JavaScript types can be compared:                             *)
(*   [t |-> "string", s |-> ...]   [t |-> "number", n |-> ...]             *)
(*   [t |-> "boolean", b |-> ...]  [t |-> "null"]  [t |-> "undefined"]     *)
(*   [t |-> "object", f |-> <record of fields>]                            *)
(***************************************************************************)
EXTENDS Integers, Sequences, FiniteSets, TLC

VARIABLES
    client,      \* the defaults of the axios instance the PAIApiClient constructor created
    config,      \* config[c]: the axios request config of call c (carries _retryCount)
    inFlight,    \* inFlight[c]: number of attempts of call c currently at the transport
    timers,      \* timers[c]: pending setTimeout delays (ms) of call c's backoff
    promise,     \* promise[c]: the promise handed to the caller of call c
    lastOutcome, \* lastOutcome[c]: what the transport produced for the latest finished attempt
    trace,       \* trace[c]: history of attempts, outcomes and elapsed waits of call c
    sent,        \* sent[c]: the request configs handed to the transport for call c, in order
    called,      \* called[c]: the public operation that started call c, with its arguments
    shown,       \* shown[c]: what getErrorMessage did with the value call c was rejected with
    input,       \* dashboard: the text of the textarea, a sequence of characters
    loading,     \* dashboard: the loading flag
    errorMsg,    \* dashboard: the error state, the message shown (empty when none)
    result,      \* dashboard: the analysis result (null or an object)
    signals,     \* dashboard: the signals shown (an array)
    signalLoading, \* dashboard: the loading flag of the signals button
    fetchingNews,  \* dashboard: the loading flag of the Fetch News button
    stats,       \* dashboard: the statistics (null or an object)
    activeTab,   \* dashboard: the tab shown
    run,         \* dashboard: the latest invocation of handleAnalyze
    resultLog,   \* dashboard: the log of the invocation that set the current result
    signalsRun,  \* dashboard: the latest invocation of handleGetSignals
    newsRun,     \* dashboard: the latest invocation of handleFetchNews
    mountRun     \* dashboard: the fetchStats() started by the mount effect

clientVars ==
    <<client, config, inFlight, timers, promise, lastOutcome, trace, sent, called, shown>>

dashVars ==
    <<input, loading, errorMsg, result, signals, signalLoading, fetchingNews, stats,
      activeTab, run, resultLog, signalsRun, newsRun, mountRun>>

vars ==
    <<client, config, inFlight, timers, promise, lastOutcome, trace, sent, called, shown,
      input, loading, errorMsg, result, signals, signalLoading, fetchingNews, stats,
      activeTab, run, resultLog, signalsRun, newsRun, mountRun>>

----------------------------------------------------------------------------
(* Bounds *)

NumCalls == 2

Calls == 1..NumCalls

(* The call used by the single-chain specification. *)
MainCall == 1

----------------------------------------------------------------------------
(* Configuration *)

MAX_RETRIES == 3

RETRY_DELAY_MS == 1000

TIMEOUT_MS == 30000

----------------------------------------------------------------------------
(* JavaScript values *)

JStr(s) == [t |-> "string", s |-> s]

JNum(n) == [t |-> "number", n |-> n]

JBool(b) == [t |-> "boolean", b |-> b]

JNull == [t |-> "null"]

JUndef == [t |-> "undefined"]

JObj(fields) == [t |-> "object", f |-> fields]

(* JavaScript truthiness, as used by the || operator. *)
Truthy(v) ==
    CASE v.t = "string"    -> v.s # ""
      [] v.t = "number"    -> v.n # 0
      [] v.t = "boolean"   -> v.b
      [] v.t = "null"      -> FALSE
      [] v.t = "undefined" -> FALSE
      [] OTHER             -> TRUE

(* a || b *)
Or(a, b) == IF Truthy(a) THEN a ELSE b

HasField(v, k) == v.t = "object" /\ k \in DOMAIN v.f

IsString(v) == v.t = "string"

(* The APIError interface: success: false, error: {code, message, details?}, timestamp. *)
IsAPIError(v) ==
    /\ HasField(v, "success") /\ v.f.success = JBool(FALSE)
    /\ HasField(v, "error")
    /\ HasField(v.f.error, "code") /\ IsString(v.f.error.f.code)
    /\ HasField(v.f.error, "message") /\ IsString(v.f.error.f.message)
    /\ (HasField(v.f.error, "details") => v.f.error.f.details.t = "object")
    /\ HasField(v, "timestamp") /\ IsString(v.f.timestamp)

----------------------------------------------------------------------------
(* Request configs *)

NoConfig == [absent |-> TRUE]

(* The values process.env.NEXT_PUBLIC_API_URL can have when the module is loaded. *)
EnvValues == {JUndef, JStr(""), JStr("https://api.example.test")}

(* process.env.NEXT_PUBLIC_API_URL || "http://localhost:8000" *)
API_BASE_URL(env) == Or(env, JStr("http://localhost:8000")).s

(* axios.create({baseURL, timeout, headers}): the instance defaults merged *)
(* into every request config.                                              *)
ClientDefaults(env) ==
    [baseURL |-> API_BASE_URL(env),
     timeout |-> TIMEOUT_MS,
     headers |-> [ContentType |-> "application/json"]]

(* this.client.post(url, data) *)
Post(url, data) == [method |-> "post", url |-> url, data |-> data] @@ client

(* this.client.get(url) *)
Get(url) == [method |-> "get", url |-> url] @@ client

VectorizeRequest(text) == Post("/api/v1/vectorize", JObj([text |-> text]))

SaveContextRequest(text) == Post("/api/v1/context", JObj([text |-> text]))

GetInsightRequest(text) == Post("/api/v1/insight", JObj([text |-> text]))

(* Variant: the default of topK is not applied. *)
SearchRequest_NoDefault(text, topK) ==
    Post("/api/v1/search", JObj([text |-> text, top_k |-> topK]))

(* topK: number = 3 : the default applies when the argument is undefined. *)
SearchRequest(text, topK) ==
    Post("/api/v1/search",
         JObj([text |-> text, top_k |-> IF topK = JUndef THEN JNum(3) ELSE topK]))

HealthCheckRequest == Get("/")

(* originalRequest._retryCount || 0 *)
RetryCountOf(cfg) == IF "_retryCount" \in DOMAIN cfg THEN cfg._retryCount ELSE 0

----------------------------------------------------------------------------
(* The response interceptor's rejection handler, pure parts *)

HasResponse(error) == "response" \in DOMAIN error

(* Variant: the counter is compared with <= instead of <. *)
ShouldRetry_Inclusive(error, originalRequest) ==
    /\ ~HasResponse(error)
    /\ originalRequest # NoConfig
    /\ RetryCountOf(originalRequest) <= MAX_RETRIES

(* Variant: the !error.response test is missing. *)
ShouldRetry_AnyFailure(error, originalRequest) ==
    /\ originalRequest # NoConfig
    /\ RetryCountOf(originalRequest) < MAX_RETRIES

(* if (!error.response && originalRequest && (originalRequest._retryCount || 0) < MAX_RETRIES) *)
ShouldRetry(error, originalRequest) ==
    /\ ~HasResponse(error)
    /\ originalRequest # NoConfig
    /\ RetryCountOf(originalRequest) < MAX_RETRIES

(* Variant: the counter is advanced by two. *)
IncrementRetryCount_Double(originalRequest) ==
    ("_retryCount" :> (RetryCountOf(originalRequest) + 2)) @@ originalRequest

(* originalRequest._retryCount = (originalRequest._retryCount || 0) + 1 *)
IncrementRetryCount(originalRequest) ==
    ("_retryCount" :> (RetryCountOf(originalRequest) + 1)) @@ originalRequest

(* Variant: the delay is not multiplied by the counter. *)
BackoffDelay_Constant(originalRequest) == RETRY_DELAY_MS

(* RETRY_DELAY_MS * originalRequest._retryCount *)
BackoffDelay(originalRequest) == RETRY_DELAY_MS * originalRequest._retryCount

(* error.response?.data *)
ResponseDataOf(error) == IF HasResponse(error) THEN error.response.data ELSE JUndef

(* Variant: the body of an error response gets a fresh timestamp. *)
TransformError_Restamped(error, now) ==
    LET data == ResponseDataOf(error) IN
    IF data.t = "object"
    THEN JObj(("timestamp" :> JStr(now)) @@ data.f)
    ELSE JObj([success   |-> JBool(FALSE),
               error     |-> JObj([code    |-> JStr("network_error"),
                                   message |-> Or(error.message, JStr("Network error occurred"))]),
               timestamp |-> JStr(now)])

(* error.response?.data || {success: false, error: {code, message}, timestamp} *)
TransformError(error, now) ==
    Or(ResponseDataOf(error),
       JObj([success   |-> JBool(FALSE),
             error     |-> JObj([code    |-> JStr("network_error"),
                                 message |-> Or(error.message, JStr("Network error occurred"))]),
             timestamp |-> JStr(now)]))

(* Variant: the handler returns the error value instead of rejecting with it. *)
RejectWith_Returned(apiError) == [state |-> "fulfilled", value |-> apiError]

(* return Promise.reject(apiError) *)
RejectWith(apiError) == [state |-> "rejected", value |-> apiError]

(* Variant: the operation returns the axios response instead of its data. *)
ReturnData_WholeResponse(response) == [state |-> "fulfilled", value |-> response]

(* return response.data, after the success interceptor (response) => response *)
ReturnData(response) == [state |-> "fulfilled", value |-> response.data]

----------------------------------------------------------------------------
(* getErrorMessage *)

(* An instance of Error. *)
JErr(message) == [t |-> "error", message |-> message]

Returned(v) == [kind |-> "return", value |-> v]

Thrown(name) == [kind |-> "throw", name |-> name]

(* v[k]: reading a property of null or undefined throws a TypeError, a     *)
(* property an object lacks and a property of a primitive are undefined.   *)
ReadProperty(v, k) ==
    IF v.t \in {"null", "undefined"} THEN Thrown("TypeError")
    ELSE IF HasField(v, k) THEN Returned(v.f[k])
    ELSE Returned(JUndef)

(* typeof error === "object" && error !== null && "error" in error *)
HasErrorKey(v) == HasField(v, "error")

(* export function getErrorMessage(error: unknown): string *)
GetErrorMessage(v) ==
    IF HasErrorKey(v) THEN ReadProperty(v.f.error, "message")
    ELSE IF v.t = "error" THEN Returned(v.message)
    ELSE Returned(JStr("An unexpected error occurred"))

----------------------------------------------------------------------------
(* Inputs: what callers pass and what the backend / transport can produce *)

Texts == {JStr("hello")}

TopKs == {JUndef, JNum(1)}

(* Instants the clock can show when an error is transformed. *)
Instants == {"2026-01-01T00:00:01.000Z"}

VectorizeBody ==
    JObj([original_text |-> JStr("hello"), vector_dimension |-> JNum(768),
          vector_preview |-> <<JNum(1), JNum(2)>>])

InsightFailedBody ==
    JObj([success   |-> JBool(FALSE),
          error     |-> JObj([code    |-> JStr("insight_failed"),
                              message |-> JStr("model unavailable")]),
          timestamp |-> JStr("2026-01-01T00:00:00.000Z")])

ValidationFailedBody ==
    JObj([success   |-> JBool(FALSE),
          error     |-> JObj([code    |-> JStr("validation_error"),
                              message |-> JStr("text is required"),
                              details |-> JObj([field |-> JStr("text")])]),
          timestamp |-> JStr("2026-01-01T00:00:00.000Z")])

(* 2xx responses *)
SuccessResponses ==
    { [status |-> 200, data |-> VectorizeBody],
      [status |-> 200, data |-> JObj([status |-> JStr("ok")])],
      [status |-> 204, data |-> JStr("")] }

(* non-2xx responses: normalized bodies, an arbitrary JSON object, a plain string, an empty body *)
ErrorResponses ==
    { [status |-> 500, data |-> InsightFailedBody],
      [status |-> 422, data |-> ValidationFailedBody],
      [status |-> 404, data |-> JObj([detail |-> JStr("Not Found")])],
      [status |-> 500, data |-> JStr("Internal Server Error")],
      [status |-> 502, data |-> JStr("")],
      [status |-> 400, data |-> JObj([error |-> JStr("oops")])],
      [status |-> 503, data |-> JObj([error |-> JNull])] }

(* messages of transport failures that carry no response *)
TransportMessages ==
    { JStr("Network Error"), JStr("timeout of 30000ms exceeded"), JStr(""), JUndef }

(* Reduced inputs for the specification of concurrent calls. *)
ConcSuccessResponses == { [status |-> 200, data |-> VectorizeBody] }

ConcErrorResponses ==
    { [status |-> 500, data |-> InsightFailedBody],
      [status |-> 404, data |-> JObj([detail |-> JStr("Not Found")])] }

ConcEnvValues == {JUndef}

ConcTransportMessages == { JStr("Network Error") }

(* The message axios gives an error that carries a response. *)
StatusMessage(status) ==
    CASE status = 400 -> JStr("Request failed with status code 400")
      [] status = 503 -> JStr("Request failed with status code 503")
      [] status = 404 -> JStr("Request failed with status code 404")
      [] status = 422 -> JStr("Request failed with status code 422")
      [] status = 500 -> JStr("Request failed with status code 500")
      [] status = 502 -> JStr("Request failed with status code 502")

----------------------------------------------------------------------------
(* Trace events *)

EvAttempt == [e |-> "attempt"]

EvNoResponse == [e |-> "no_response"]

EvResponse(status) == [e |-> "response", status |-> status]

EvWait(ms) == [e |-> "wait", ms |-> ms]

NoOutcome == [kind |-> "none"]

NoCall == [op |-> "none"]

NotShown == [kind |-> "none"]

----------------------------------------------------------------------------
(* Dashboard state (Home component) *)

NoResult == [t |-> "null"]

IdleRun == [pc |-> "idle"]

(* Messages are sequences of the code points of the JavaScript string. *)
(* useState(""): no error. *)
NoError == <<>>

(* "AI 서버 연결에 실패했습니다. 백엔드가 실행 중인지 확인해주세요." *)
FailureMessage ==
    <<65, 73, 32, 49436, 48260, 32, 50672, 44208, 50640, 32, 49892, 54056, 54664,
      49845, 45768, 45796, 46, 32, 48177, 50644, 46300, 44032, 32, 49892, 54665, 32,
      51473, 51064, 51648, 32, 54869, 51064, 54644, 51452, 49464, 50836, 46>>

(* "뉴스 수집에 실패했습니다." *)
NewsFailureMessage ==
    <<45684, 49828, 32, 49688, 51665, 50640, 32, 49892, 54056, 54664, 49845, 45768,
      45796, 46>>

(* "관심사를 먼저 입력해주세요." *)
BlankInputMessage ==
    <<44288, 49900, 49324, 47484, 32, 47676, 51200, 32, 51077, 47141, 54644, 51452,
      49464, 50836, 46>>

(* "시그널 생성에 실패했습니다." *)
SignalsFailureMessage ==
    <<49884, 44536, 45328, 32, 49373, 49457, 50640, 32, 49892, 54056, 54664, 49845,
      45768, 45796, 46>>

(* useState<"context" | "signals">("context") *)
Tabs == {"context", "signals"}

(* The useState initial values, and useEffect(() => { fetchStats(); }, []): *)
(* the request for the statistics is pending once the component is mounted. *)
DashInit ==
    /\ input = <<>>
    /\ result = NoResult
    /\ loading = FALSE
    /\ errorMsg = NoError
    /\ signals = <<>>
    /\ signalLoading = FALSE
    /\ fetchingNews = FALSE
    /\ stats = JNull
    /\ activeTab = "context"
    /\ run = IdleRun
    /\ resultLog = <<>>
    /\ signalsRun = IdleRun
    /\ newsRun = IdleRun
    /\ mountRun = [pc |-> "stats"]

(* The characters a user types, and the texts the textarea can hold. *)
MaxInputLen == 1

Chars == {" ", "a"}

Whitespace == {" "}

Inputs == UNION {[1..n -> Chars] : n \in 0..MaxInputLen}

RECURSIVE TrimStart(_)
TrimStart(str) ==
    IF str = <<>> THEN str
    ELSE IF Head(str) \in Whitespace THEN TrimStart(Tail(str))
    ELSE str

RECURSIVE TrimEnd(_)
TrimEnd(str) ==
    IF str = <<>> THEN str
    ELSE IF str[Len(str)] \in Whitespace THEN TrimEnd(SubSeq(str, 1, Len(str) - 1))
    ELSE str

(* input.trim() *)
Trim(str) == TrimEnd(TrimStart(str))

(* if (!input.trim()) return; *)
ReturnsEarly(str) == Trim(str) = <<>>

(* A signal card: it reads signal.article.id, .source, .published_at, .url, *)
(* .title, .summary and calls signal.score.toFixed(1).                      *)
SignalCardThrows(signal) ==
    \/ ReadProperty(signal, "article").kind = "throw"
    \/ ReadProperty(ReadProperty(signal, "article").value, "id").kind = "throw"
    \/ ReadProperty(signal, "score").kind = "throw"
    \/ ReadProperty(signal, "score").value.t # "number"

(* The render of Home throws: the result card of the context tab reads    *)
(* result.vector.vector_dimension, the signals tab renders a card for each *)
(* signal. Nothing of the page, and so no button, is rendered then.        *)
RenderThrows ==
    \/ /\ activeTab = "context"
       /\ Truthy(result)
       /\ \/ ReadProperty(result, "vector").kind = "throw"
          \/ ReadProperty(ReadProperty(result, "vector").value, "vector_dimension").kind = "throw"
    \/ /\ activeTab = "signals"
       /\ \E i \in DOMAIN signals : SignalCardThrows(signals[i])

(* The Analyze button: rendered on the context tab, disabled={loading || !input} *)
AnalyzeDisabled == loading \/ input = <<>>

(* The signals button: rendered on the signals tab, disabled={signalLoading || !input} *)
SignalsDisabled == signalLoading \/ input = <<>>

(* The Fetch News button: rendered on the signals tab, disabled={fetchingNews} *)
FetchNewsDisabled == fetchingNews

VectorizeUrl == "http://localhost:8000/api/v1/vectorize"

ContextUrl == "http://localhost:8000/api/v1/context"

InsightUrl == "http://localhost:8000/api/v1/insight"

SignalsUrl == "http://localhost:8000/api/v1/signals?top_k=10&min_score=2"

FeedsFetchUrl == "http://localhost:8000/api/v1/feeds/fetch?limit_per_feed=5"

StatsUrl == "http://localhost:8000/api/v1/signals/stats"

(* What a request of the dashboard can settle with. *)
Failed == [ok |-> FALSE]

Succeeded(data) == [ok |-> TRUE, data |-> data]

InsightBody ==
    JObj([insight |-> JStr("focus on referrals"),
          context_used |-> <<JStr("hello")>>,
          model_used |-> JStr("gemini")])

(* A response of the signals endpoint with one Signal {article, score, similarity}. *)
SignalsBody ==
    JObj([signals |->
            <<JObj([article |->
                        JObj([id           |-> JStr("a1"),
                              title        |-> JStr("Growth on a budget"),
                              url          |-> JStr("https://news.example.test/a1"),
                              source       |-> JStr("example"),
                              summary      |-> JStr("referrals"),
                              published_at |-> JNull]),
                    score      |-> JNum(8),
                    similarity |-> JNum(1)])>>])

NewsBody == JObj([message |-> JStr("fetched")])

StatsBody ==
    JObj([news_articles_count |-> JNum(5),
          feeds_configured |-> JNum(1),
          status |-> JStr("ready")])

VectorizeOutcomes == {Succeeded(VectorizeBody), Failed}

ContextOutcomes == {Succeeded(JObj([status |-> JStr("success")])), Failed}

InsightOutcomes == {Succeeded(InsightBody), Succeeded(JNull), Failed}

SignalsOutcomes == {Succeeded(SignalsBody), Succeeded(JNull), Failed}

NewsOutcomes == {Succeeded(NewsBody), Succeeded(JNull), Failed}

StatsOutcomes == {Succeeded(StatsBody), Failed}

(* Events of the log of one invocation of handleAnalyze. *)
EvPost(url, text) == [e |-> "post", url |-> url, text |-> text]

EvSettled(url, ok) == [e |-> "settled", url |-> url, ok |-> ok]

----------------------------------------------------------------------------
(* State *)

(* The state after new PAIApiClient() in a process whose environment has env. *)
ClientInit(env) ==
    /\ client = ClientDefaults(env)
    /\ config = [c \in Calls |-> NoConfig]
    /\ inFlight = [c \in Calls |-> 0]
    /\ timers = [c \in Calls |-> <<>>]
    /\ promise = [c \in Calls |-> [state |-> "none"]]
    /\ lastOutcome = [c \in Calls |-> NoOutcome]
    /\ trace = [c \in Calls |-> <<>>]
    /\ sent = [c \in Calls |-> <<>>]
    /\ called = [c \in Calls |-> NoCall]
    /\ shown = [c \in Calls |-> NotShown]

Init ==
    /\ \E env \in EnvValues : ClientInit(env)
    /\ DashInit

(* The dashboard calls axios directly and does not read the environment. *)
DashboardInit ==
    /\ ClientInit(JUndef)
    /\ DashInit

(* A public operation is called: the request is handed to the transport. *)
Request(c, cfg) ==
    /\ promise[c].state = "none"
    /\ config' = [config EXCEPT ![c] = cfg]
    /\ inFlight' = [inFlight EXCEPT ![c] = @ + 1]
    /\ promise' = [promise EXCEPT ![c] = [state |-> "pending"]]
    /\ trace' = [trace EXCEPT ![c] = Append(@, EvAttempt)]
    /\ sent' = [sent EXCEPT ![c] = Append(@, cfg)]
    /\ UNCHANGED <<timers, lastOutcome, shown>>
    /\ UNCHANGED client
    /\ UNCHANGED dashVars

vectorize(c, text) ==
    /\ Request(c, VectorizeRequest(text))
    /\ called' = [called EXCEPT ![c] = [op |-> "vectorize", text |-> text]]

saveContext(c, text) ==
    /\ Request(c, SaveContextRequest(text))
    /\ called' = [called EXCEPT ![c] = [op |-> "saveContext", text |-> text]]

getInsight(c, text) ==
    /\ Request(c, GetInsightRequest(text))
    /\ called' = [called EXCEPT ![c] = [op |-> "getInsight", text |-> text]]

search(c, text, topK) ==
    /\ Request(c, SearchRequest(text, topK))
    /\ called' = [called EXCEPT ![c] = [op |-> "search", text |-> text, topK |-> topK]]

healthCheck(c) ==
    /\ Request(c, HealthCheckRequest)
    /\ called' = [called EXCEPT ![c] = [op |-> "healthCheck"]]

(* Variant: the counter is kept on the shared client instead of the request config. *)
StoreRetryCount_Shared(c, retried) ==
    [d \in Calls |->
        IF d = c THEN retried
        ELSE IF config[d] = NoConfig THEN NoConfig
        ELSE ("_retryCount" :> retried._retryCount) @@ config[d]]

(* originalRequest._retryCount = ... : the counter lives on the call's own config object. *)
StoreRetryCount(c, retried) == [config EXCEPT ![c] = retried]

(* Variant: the delay is started but not awaited, the request is reissued at once. *)
ScheduleRetry_NotAwaited(c, retried) ==
    /\ timers' = [timers EXCEPT ![c] = Append(@, BackoffDelay(retried))]
    /\ inFlight' = inFlight

(* await this.delay(RETRY_DELAY_MS * originalRequest._retryCount): the handler *)
(* suspends on a timer; the failed attempt has left the transport.             *)
ScheduleRetry(c, retried) ==
    /\ timers' = [timers EXCEPT ![c] = Append(@, BackoffDelay(retried))]
    /\ inFlight' = [inFlight EXCEPT ![c] = @ - 1]

(* The rejection handler of the response interceptor. *)
OnRejected(c, error) ==
    LET originalRequest == error.config IN
    IF ShouldRetry(error, originalRequest)
    THEN LET retried == IncrementRetryCount(originalRequest) IN
         /\ config' = StoreRetryCount(c, retried)
         /\ ScheduleRetry(c, retried)
         /\ UNCHANGED promise
    ELSE /\ \E now \in Instants :
                promise' = [promise EXCEPT ![c] = RejectWith(TransformError(error, now))]
         /\ inFlight' = [inFlight EXCEPT ![c] = @ - 1]
         /\ UNCHANGED <<config, timers>>

(* The attempt in flight gets a 2xx response: (response) => response, then *)
(* the operation returns response.data.                                    *)
ResponseOk(c, response) ==
    /\ inFlight[c] > 0
    /\ inFlight' = [inFlight EXCEPT ![c] = @ - 1]
    /\ promise' = [promise EXCEPT ![c] = ReturnData(response)]
    /\ lastOutcome' = [lastOutcome EXCEPT ![c] = [kind |-> "response", response |-> response]]
    /\ trace' = [trace EXCEPT ![c] = Append(@, EvResponse(response.status))]
    /\ UNCHANGED <<config, timers, sent, called, shown>>
    /\ UNCHANGED client
    /\ UNCHANGED dashVars

(* The attempt in flight gets a non-2xx response: axios rejects with an *)
(* error that carries the response.                                     *)
ResponseError(c, response) ==
    /\ inFlight[c] > 0
    /\ LET error == [message  |-> StatusMessage(response.status),
                     response |-> response,
                     config   |-> config[c]] IN
       /\ OnRejected(c, error)
       /\ lastOutcome' = [lastOutcome EXCEPT ![c] = [kind |-> "error", error |-> error]]
    /\ trace' = [trace EXCEPT ![c] = Append(@, EvResponse(response.status))]
    /\ UNCHANGED <<sent, called, shown>>
    /\ UNCHANGED client
    /\ UNCHANGED dashVars

(* The attempt in flight ends without a response (connection failure, *)
(* timeout, DNS failure).                                             *)
NoResponse(c, message) ==
    /\ inFlight[c] > 0
    /\ LET error == [message |-> message, config |-> config[c]] IN
       /\ OnRejected(c, error)
       /\ lastOutcome' = [lastOutcome EXCEPT ![c] = [kind |-> "error", error |-> error]]
    /\ trace' = [trace EXCEPT ![c] = Append(@, EvNoResponse)]
    /\ UNCHANGED <<sent, called, shown>>
    /\ UNCHANGED client
    /\ UNCHANGED dashVars

(* Variant: the retry is issued from a fresh copy of the request that has lost the counter. *)
Reissue_Fresh(originalRequest) ==
    [k \in DOMAIN originalRequest \ {"_retryCount"} |-> originalRequest[k]]

(* this.client(originalRequest): the retry is issued with the request's own config. *)
Reissue(originalRequest) == originalRequest

(* The backoff timer fires: return this.client(originalRequest). *)
DelayElapsed(c) ==
    /\ timers[c] # <<>>
    /\ timers' = [timers EXCEPT ![c] = Tail(@)]
    /\ inFlight' = [inFlight EXCEPT ![c] = @ + 1]
    /\ trace' = [trace EXCEPT ![c] = (@ \o <<EvWait(Head(timers[c]))>>) \o <<EvAttempt>>]
    /\ config' = [config EXCEPT ![c] = Reissue(config[c])]
    /\ sent' = [sent EXCEPT ![c] = Append(@, Reissue(config[c]))]
    /\ UNCHANGED <<promise, lastOutcome, called, shown>>
    /\ UNCHANGED client
    /\ UNCHANGED dashVars

(* A caller that caught the rejection of call c passes it to getErrorMessage. *)
ShowError(c) ==
    /\ promise[c].state = "rejected"
    /\ shown[c] = NotShown
    /\ shown' = [shown EXCEPT ![c] = GetErrorMessage(promise[c].value)]
    /\ UNCHANGED <<config, inFlight, timers, promise, lastOutcome, trace, sent, called>>
    /\ UNCHANGED client
    /\ UNCHANGED dashVars

----------------------------------------------------------------------------
(* The dashboard's handlers *)

(* Variant: setLoading(false) is called on the success path only. *)
LoadingAfter_SuccessOnly(outcome) == IF outcome = "success" THEN FALSE ELSE loading

(* finally { setLoading(false) } *)
LoadingAfter(outcome) == FALSE

(* Variant: a failed context save is not caught by the inner try. *)
AfterContext_Abort(ok) == IF ok THEN "insight" ELSE "catch"

(* try { await axios.post(context) } catch (saveErr) { console.warn(...) } *)
AfterContext(ok) == "insight"

(* setResult({vector, insight, context_used, saved: true}) *)
ResultOf(vecData, insightData) ==
    JObj([vector       |-> vecData,
          insight      |-> ReadProperty(insightData, "insight").value,
          context_used |-> ReadProperty(insightData, "context_used").value,
          saved        |-> JBool(TRUE)])

(* fetchStats: setStats(response.data) when the request succeeded, a failure *)
(* is logged and leaves the statistics as they are.                          *)
StatsAfter(outcome) == IF outcome.ok THEN outcome.data ELSE stats

(* The textarea's onChange: setInput(e.target.value). *)
SetInput(text) ==
    /\ ~RenderThrows
    /\ input' = text
    /\ UNCHANGED <<loading, errorMsg, result, run, resultLog>>
    /\ UNCHANGED <<signals, signalLoading, signalsRun, fetchingNews, newsRun>>
    /\ UNCHANGED <<stats, mountRun, activeTab>>
    /\ UNCHANGED clientVars

(* A tab button is clicked: setActiveTab(tab). *)
SetActiveTab(tab) ==
    /\ ~RenderThrows
    /\ activeTab' = tab
    /\ UNCHANGED <<input, loading, errorMsg, result, run, resultLog>>
    /\ UNCHANGED <<signals, signalLoading, signalsRun, fetchingNews, newsRun>>
    /\ UNCHANGED <<stats, mountRun>>
    /\ UNCHANGED clientVars

(* The fetchStats() of the mount effect settles. *)
MountStatsSettled(outcome) ==
    /\ mountRun.pc = "stats"
    /\ stats' = StatsAfter(outcome)
    /\ mountRun' = [pc |-> "done"]
    /\ UNCHANGED <<input, loading, errorMsg, result, run, resultLog>>
    /\ UNCHANGED <<signals, signalLoading, signalsRun, fetchingNews, newsRun>>
    /\ UNCHANGED activeTab
    /\ UNCHANGED clientVars

(* catch (err) { setError(...) } finally { setLoading(false) } *)
Catch(log) ==
    /\ errorMsg' = FailureMessage
    /\ loading' = LoadingAfter("failure")
    /\ run' = [pc |-> "done", text |-> run.text, log |-> log]
    /\ UNCHANGED <<input, result, resultLog>>

(* The Analyze button is clicked: handleAnalyze runs up to its first await. *)
ClickAnalyze ==
    /\ ~RenderThrows
    /\ activeTab = "context"
    /\ ~AnalyzeDisabled
    /\ IF ReturnsEarly(input)
       THEN /\ run' = [pc |-> "returned", text |-> input, log |-> <<>>]
            /\ UNCHANGED <<loading, errorMsg, result, resultLog>>
       ELSE /\ loading' = TRUE
            /\ errorMsg' = NoError
            /\ result' = NoResult
            /\ resultLog' = <<>>
            /\ run' = [pc |-> "vectorize", text |-> input,
                       log |-> <<EvPost(VectorizeUrl, input)>>]
    /\ UNCHANGED input
    /\ UNCHANGED <<signals, signalLoading, signalsRun, fetchingNews, newsRun>>
    /\ UNCHANGED <<stats, mountRun, activeTab>>
    /\ UNCHANGED clientVars

(* The vectorize request settles. *)
VectorizeSettled(outcome) ==
    /\ run.pc = "vectorize"
    /\ LET log == Append(run.log, EvSettled(VectorizeUrl, outcome.ok)) IN
       IF outcome.ok
       THEN /\ run' = [pc |-> "context", text |-> run.text, vec |-> outcome.data,
                       log |-> Append(log, EvPost(ContextUrl, run.text))]
            /\ UNCHANGED <<input, loading, errorMsg, result, resultLog>>
       ELSE Catch(log)
    /\ UNCHANGED <<signals, signalLoading, signalsRun, fetchingNews, newsRun>>
    /\ UNCHANGED <<stats, mountRun, activeTab>>
    /\ UNCHANGED clientVars

(* The context request settles. *)
ContextSettled(outcome) ==
    /\ run.pc = "context"
    /\ LET log == Append(run.log, EvSettled(ContextUrl, outcome.ok)) IN
       IF AfterContext(outcome.ok) = "insight"
       THEN /\ run' = [pc |-> "insight", text |-> run.text, vec |-> run.vec,
                       log |-> Append(log, EvPost(InsightUrl, run.text))]
            /\ UNCHANGED <<input, loading, errorMsg, result, resultLog>>
       ELSE Catch(log)
    /\ UNCHANGED <<signals, signalLoading, signalsRun, fetchingNews, newsRun>>
    /\ UNCHANGED <<stats, mountRun, activeTab>>
    /\ UNCHANGED clientVars

(* The insight request settles: setResult({...}) when it succeeded and the *)
(* reads of insightResponse.data did not throw.                            *)
InsightSettled(outcome) ==
    /\ run.pc = "insight"
    /\ LET log == Append(run.log, EvSettled(InsightUrl, outcome.ok)) IN
       IF outcome.ok /\ ReadProperty(outcome.data, "insight").kind = "return"
       THEN /\ result' = ResultOf(run.vec, outcome.data)
            /\ resultLog' = log
            /\ loading' = LoadingAfter("success")
            /\ run' = [pc |-> "done", text |-> run.text, log |-> log]
            /\ UNCHANGED <<input, errorMsg>>
       ELSE Catch(log)
    /\ UNCHANGED <<signals, signalLoading, signalsRun, fetchingNews, newsRun>>
    /\ UNCHANGED <<stats, mountRun, activeTab>>
    /\ UNCHANGED clientVars

(* axios.post is called without a timeout: the pending request of the *)
(* analysis may never settle, and the handler then stays suspended.   *)
RequestNeverSettles ==
    /\ run.pc \in {"vectorize", "context", "insight"}
    /\ run' = [pc |-> "hung", text |-> run.text, log |-> run.log]
    /\ UNCHANGED <<input, loading, errorMsg, result, resultLog>>
    /\ UNCHANGED <<signals, signalLoading, signalsRun, fetchingNews, newsRun>>
    /\ UNCHANGED <<stats, mountRun, activeTab>>
    /\ UNCHANGED clientVars

(* The signals button is clicked: handleGetSignals runs up to its await. *)
ClickGetSignals ==
    /\ ~RenderThrows
    /\ activeTab = "signals"
    /\ ~SignalsDisabled
    /\ IF ReturnsEarly(input)
       THEN /\ errorMsg' = BlankInputMessage
            /\ UNCHANGED <<signalLoading, signalsRun>>
       ELSE /\ signalLoading' = TRUE
            /\ errorMsg' = NoError
            /\ signalsRun' = [pc |-> "signals", text |-> input]
    /\ UNCHANGED <<input, loading, result, run, resultLog>>
    /\ UNCHANGED <<signals, fetchingNews, newsRun>>
    /\ UNCHANGED <<stats, mountRun, activeTab>>
    /\ UNCHANGED clientVars

(* The signals request settles: setSignals(response.data.signals), or the *)
(* catch block when the request failed or the read of the body threw.     *)
SignalsSettled(outcome) ==
    /\ signalsRun.pc = "signals"
    /\ IF outcome.ok /\ ReadProperty(outcome.data, "signals").kind = "return"
       THEN /\ signals' = ReadProperty(outcome.data, "signals").value
            /\ UNCHANGED errorMsg
       ELSE /\ errorMsg' = SignalsFailureMessage
            /\ UNCHANGED signals
    /\ signalLoading' = FALSE
    /\ signalsRun' = IdleRun
    /\ UNCHANGED <<input, loading, result, run, resultLog>>
    /\ UNCHANGED <<fetchingNews, newsRun>>
    /\ UNCHANGED <<stats, mountRun, activeTab>>
    /\ UNCHANGED clientVars

(* catch (err) { setError(...) } finally { setFetchingNews(false) } *)
NewsCatch ==
    /\ errorMsg' = NewsFailureMessage
    /\ fetchingNews' = FALSE
    /\ newsRun' = IdleRun

(* The Fetch News button is clicked: handleFetchNews runs up to its first await. *)
ClickFetchNews ==
    /\ ~RenderThrows
    /\ activeTab = "signals"
    /\ ~FetchNewsDisabled
    /\ fetchingNews' = TRUE
    /\ errorMsg' = NoError
    /\ newsRun' = [pc |-> "fetch"]
    /\ UNCHANGED <<input, loading, result, run, resultLog>>
    /\ UNCHANGED <<signals, signalLoading, signalsRun>>
    /\ UNCHANGED <<stats, mountRun, activeTab>>
    /\ UNCHANGED clientVars

(* The feeds request settles: await fetchStats() after a success. *)
NewsSettled(outcome) ==
    /\ newsRun.pc = "fetch"
    /\ IF outcome.ok
       THEN /\ newsRun' = [pc |-> "stats", data |-> outcome.data]
            /\ UNCHANGED <<errorMsg, fetchingNews>>
       ELSE NewsCatch
    /\ UNCHANGED <<input, loading, result, run, resultLog>>
    /\ UNCHANGED <<signals, signalLoading, signalsRun>>
    /\ UNCHANGED <<stats, mountRun, activeTab>>
    /\ UNCHANGED clientVars

(* The fetchStats() awaited by handleFetchNews settles; then                *)
(* alert(`${response.data.message}`), whose read of the body can throw into *)
(* the catch block, and finally setFetchingNews(false).                     *)
NewsStatsSettled(outcome) ==
    /\ newsRun.pc = "stats"
    /\ stats' = StatsAfter(outcome)
    /\ IF ReadProperty(newsRun.data, "message").kind = "return"
       THEN /\ fetchingNews' = FALSE
            /\ newsRun' = IdleRun
            /\ UNCHANGED errorMsg
       ELSE NewsCatch
    /\ UNCHANGED <<input, loading, result, run, resultLog>>
    /\ UNCHANGED <<signals, signalLoading, signalsRun>>
    /\ UNCHANGED <<mountRun, activeTab>>
    /\ UNCHANGED clientVars
----------------------------------------------------------------------------
(* Specifications *)

(* One call chain, full inputs. *)
Next ==
    \/ \E text \in Texts : vectorize(MainCall, text)
    \/ \E text \in Texts : saveContext(MainCall, text)
    \/ \E text \in Texts : getInsight(MainCall, text)
    \/ \E text \in Texts, topK \in TopKs : search(MainCall, text, topK)
    \/ healthCheck(MainCall)
    \/ \E response \in SuccessResponses : ResponseOk(MainCall, response)
    \/ \E response \in ErrorResponses : ResponseError(MainCall, response)
    \/ \E message \in TransportMessages : NoResponse(MainCall, message)
    \/ DelayElapsed(MainCall)
    \/ ShowError(MainCall)

Spec == Init /\ [][Next]_vars

(* Concurrent call chains on the shared client, reduced inputs. *)
ConcNext ==
    \E c \in Calls :
        \/ \E text \in Texts : vectorize(c, text)
        \/ healthCheck(c)
        \/ \E response \in ConcSuccessResponses : ResponseOk(c, response)
        \/ \E response \in ConcErrorResponses : ResponseError(c, response)
        \/ \E message \in ConcTransportMessages : NoResponse(c, message)
        \/ DelayElapsed(c)

(* The concurrent calls are made on the client of a process without the variable. *)
ConcInit ==
    /\ \E env \in ConcEnvValues : ClientInit(env)
    /\ DashInit

ConcSpec == ConcInit /\ [][ConcNext]_vars

(* Every attempt terminates and every timer fires. *)
AttemptEnds(c) ==
    \/ \E response \in ConcSuccessResponses : ResponseOk(c, response)
    \/ \E response \in ConcErrorResponses : ResponseError(c, response)
    \/ \E message \in ConcTransportMessages : NoResponse(c, message)

FairConcSpec ==
    /\ ConcSpec
    /\ \A c \in Calls : WF_vars(AttemptEnds(c)) /\ WF_vars(DelayElapsed(c))

----------------------------------------------------------------------------
(* Observations used by the properties *)

Started(c) == promise[c].state # "none"

Pending(c) == promise[c].state = "pending"

Fulfilled(c) == promise[c].state = "fulfilled"

Rejected(c) == promise[c].state = "rejected"

Settled(c) == Fulfilled(c) \/ Rejected(c)

(* Positions of the events of one kind in the trace of call c. *)
Events(c, kind) == {i \in DOMAIN trace[c] : trace[c][i].e = kind}

Attempts(c) == Cardinality(Events(c, "attempt"))

NoResponseEver(c) == Events(c, "response") = {}

LastEvent(c) == trace[c][Len(trace[c])]

(* The number of waits that have elapsed up to position i of the trace. *)
WaitsUpTo(c, i) == Cardinality({j \in Events(c, "wait") : j <= i})

RECURSIVE SumMs(_)
SumMs(events) ==
    IF events = <<>> THEN 0
    ELSE (IF Head(events).e = "wait" THEN Head(events).ms ELSE 0) + SumMs(Tail(events))

TotalWait(c) == SumMs(trace[c])

LastFailedWithoutResponse(c) ==
    lastOutcome[c].kind = "error" /\ ~HasResponse(lastOutcome[c].error)

LastFailedWithResponse(c) ==
    lastOutcome[c].kind = "error" /\ HasResponse(lastOutcome[c].error)

----------------------------------------------------------------------------
(* C1: a call none of whose attempts gets a response makes exactly 4       *)
(* attempts and is then rejected with an error whose code is               *)
(* "network_error" and whose message is the transport's message, or        *)
(* "Network error occurred" when that message is empty or absent.          *)
C1_ExhaustedChainRejectsNetworkError ==
    \A c \in Calls :
        (Settled(c) /\ NoResponseEver(c)) =>
            /\ Attempts(c) = 4
            /\ Rejected(c)
            /\ LastFailedWithoutResponse(c)
            /\ IsAPIError(promise[c].value)
            /\ promise[c].value.f.error.f.code = JStr("network_error")
            /\ LET message == lastOutcome[c].error.message IN
               promise[c].value.f.error.f.message =
                   IF message = JUndef \/ message = JStr("")
                   THEN JStr("Network error occurred")
                   ELSE message

C1_Witness ==
    /\ Rejected(MainCall)
    /\ NoResponseEver(MainCall)
    /\ Attempts(MainCall) = 4
    /\ lastOutcome[MainCall].error.message = JUndef
    /\ promise[MainCall].value.f.error.f.message = JStr("Network error occurred")

(* C2: an attempt that receives a response, whatever its status, is the    *)
(* last attempt of its call: nothing follows it, no retry is scheduled,    *)
(* and a call whose first attempt receives a response makes 1 attempt.     *)
C2_ResponseIsNeverRetried ==
    \A c \in Calls :
        \A i \in Events(c, "response") :
            /\ i = Len(trace[c])
            /\ inFlight[c] = 0
            /\ timers[c] = <<>>
            /\ Settled(c)
            /\ (i = 2 => Attempts(c) = 1 /\ RetryCountOf(config[c]) = 0)

C2_Witness ==
    /\ Attempts(MainCall) = 3
    /\ RetryCountOf(config[MainCall]) = 2
    /\ LastEvent(MainCall) = EvResponse(502)
    /\ Rejected(MainCall)

(* C3: every value rejected to a caller has the normalized error shape     *)
(* (success=false, error.code, error.message, timestamp).                  *)
C3_EveryRejectionIsNormalized ==
    \A c \in Calls : Rejected(c) => IsAPIError(promise[c].value)

(* C4: when an attempt fails with a response whose body is a normalized    *)
(* error record, the caller is rejected with exactly that body and no      *)
(* retry follows (none at all when it was the first attempt).              *)
C4_NormalizedBodyPassedThrough ==
    \A c \in Calls :
        (LastFailedWithResponse(c) /\ IsAPIError(lastOutcome[c].error.response.data)) =>
            /\ Rejected(c)
            /\ promise[c].value = lastOutcome[c].error.response.data
            /\ LastEvent(c).e = "response"
            /\ inFlight[c] = 0
            /\ timers[c] = <<>>
            /\ (Len(trace[c]) = 2 => Attempts(c) = 1 /\ Events(c, "wait") = {})

C4_Witness ==
    /\ trace[MainCall] = <<EvAttempt, EvResponse(500)>>
    /\ config[MainCall] = GetInsightRequest(JStr("hello"))
    /\ promise[MainCall] = [state |-> "rejected", value |-> InsightFailedBody]

(* C5: the wait before retry N is 1000 * N ms; waits happen only between   *)
(* a failed attempt and the retry that follows it, never before the        *)
(* initial attempt or before the final rejection; an exhausted chain has   *)
(* waited 1000, 2000, 3000 = 6000 ms.                                      *)
C5_LinearBackoff ==
    \A c \in Calls :
        /\ \A i \in Events(c, "wait") :
              /\ trace[c][i].ms = 1000 * WaitsUpTo(c, i)
              /\ i > 1 /\ trace[c][i - 1].e = "no_response"
              /\ i < Len(trace[c]) /\ trace[c][i + 1].e = "attempt"
        /\ \A i, j \in Events(c, "wait") : i < j => trace[c][i].ms < trace[c][j].ms
        /\ (timers[c] # <<>> =>
                /\ Len(timers[c]) = 1
                /\ Head(timers[c]) = 1000 * (Cardinality(Events(c, "wait")) + 1))
        /\ (trace[c] # <<>> => trace[c][1].e = "attempt")
        /\ (Settled(c) => timers[c] = <<>> /\ LastEvent(c).e # "wait")
        /\ ((Rejected(c) /\ NoResponseEver(c)) =>
                /\ Cardinality(Events(c, "wait")) = 3
                /\ TotalWait(c) = 6000)

C5_Witness ==
    /\ Rejected(MainCall)
    /\ NoResponseEver(MainCall)
    /\ TotalWait(MainCall) = 6000
    /\ {trace[MainCall][i].ms : i \in Events(MainCall, "wait")} = {1000, 2000, 3000}

(* C6: the attempts of one call are sequential: at most one attempt or    *)
(* backoff wait of a call is pending at any time, every retry attempt      *)
(* follows the elapsed wait that follows a failed attempt, and the         *)
(* caller's promise stays pending while an attempt or a wait is pending    *)
(* and settles only on a response or when retrying has stopped.            *)
C6_SequentialAttempts ==
    \A c \in Calls :
        /\ inFlight[c] + Len(timers[c]) <= 1
        /\ (inFlight[c] + Len(timers[c]) > 0 => Pending(c))
        /\ (Pending(c) => inFlight[c] + Len(timers[c]) = 1)
        /\ \A i \in Events(c, "attempt") :
              i > 1 => /\ trace[c][i - 1].e = "wait"
                       /\ trace[c][i - 2].e = "no_response"
        /\ (inFlight[c] > 0 => LastEvent(c).e = "attempt")
        /\ (timers[c] # <<>> => LastEvent(c).e = "no_response")
        /\ (Settled(c) =>
                \/ LastEvent(c).e = "response"
                \/ LastEvent(c).e = "no_response" /\ RetryCountOf(config[c]) = MAX_RETRIES)

C6_Witness ==
    /\ timers[1] = <<2000>> /\ inFlight[1] = 0 /\ Pending(1)
    /\ inFlight[2] = 1 /\ Attempts(2) = 3 /\ Pending(2)

(* The part of the state that belongs to call c. *)
CallState(c) == <<config[c], inFlight[c], timers[c], promise[c], lastOutcome[c], trace[c]>>

(* C7: concurrent calls are independent: a step of one call leaves the     *)
(* retry counter, attempts, waits and outcome of every other call          *)
(* unchanged, and the retry counter of a call counts its own failed        *)
(* attempts that were retried, whatever the other calls did.               *)
C7_CallsAreIndependent ==
    /\ [](\A c \in Calls :
            /\ RetryCountOf(config[c]) = Cardinality(Events(c, "wait")) + Len(timers[c])
            /\ (Started(c) => Attempts(c) = Cardinality(Events(c, "wait")) + 1))
    /\ [][\A c \in Calls :
            CallState(c)' # CallState(c) =>
                \A d \in Calls \ {c} : CallState(d)' = CallState(d)]_vars

C7_Witness ==
    /\ Rejected(1) /\ RetryCountOf(config[1]) = 3 /\ Attempts(1) = 4
    /\ Fulfilled(2) /\ RetryCountOf(config[2]) = 0 /\ Attempts(2) = 1
    /\ config[1] = ("_retryCount" :> 3) @@ config[2]

(* C8: no error is swallowed: when attempts terminate and timers fire,     *)
(* every call that was started eventually settles; a fulfilled call got a  *)
(* successful response and carries its data, a call whose last attempt     *)
(* failed is never fulfilled, and a rejected call carries an error value.  *)
C8_NoErrorSwallowed ==
    /\ [](\A c \in Calls :
            /\ (lastOutcome[c].kind = "error" => ~Fulfilled(c))
            /\ (Fulfilled(c) => lastOutcome[c].kind = "response")
            /\ (Rejected(c) => /\ lastOutcome[c].kind = "error"
                               /\ promise[c].value.t \notin {"undefined", "null"}))
    /\ \A c \in Calls : Pending(c) ~> Settled(c)

C8_Witness ==
    /\ Rejected(1) /\ LastFailedWithoutResponse(1) /\ Attempts(1) = 4
    /\ Rejected(2) /\ LastFailedWithResponse(2)

(* C9: a call makes between 1 and 4 attempts; its retry counter starts at  *)
(* 0, changes only by +1, exactly when a retry is scheduled, and never     *)
(* exceeds 3.                                                              *)
C9_BoundedAttempts ==
    /\ [](\A c \in Calls :
            /\ RetryCountOf(config[c]) \in 0..3
            /\ (Started(c) => Attempts(c) \in 1..4)
            /\ (~Started(c) => Attempts(c) = 0)
            /\ (Attempts(c) = 1 => RetryCountOf(config[c]) \in {0, 1}))
    /\ [][\A c \in Calls :
            /\ (~Started(c) /\ Started(c)' => RetryCountOf(config'[c]) = 0)
            /\ RetryCountOf(config'[c]) \in
                   {RetryCountOf(config[c]), RetryCountOf(config[c]) + 1}
            /\ (RetryCountOf(config'[c]) = RetryCountOf(config[c]) + 1
                   <=> Len(timers'[c]) = Len(timers[c]) + 1)]_vars

C9_Witness ==
    /\ Attempts(MainCall) = 4
    /\ RetryCountOf(config[MainCall]) = 3
    /\ Fulfilled(MainCall)

(* C10: when an attempt succeeds, on the first attempt or on a retry, the  *)
(* operation returns exactly the body of that response, and no further     *)
(* attempt is made.                                                        *)
C10_SuccessReturnsBody ==
    \A c \in Calls :
        /\ (Fulfilled(c) =>
                /\ lastOutcome[c].kind = "response"
                /\ promise[c].value = lastOutcome[c].response.data)
        /\ (lastOutcome[c].kind = "response" =>
                /\ Fulfilled(c)
                /\ LastEvent(c).e = "response"
                /\ inFlight[c] = 0
                /\ timers[c] = <<>>)

C10_Witness ==
    /\ config[MainCall] = ("_retryCount" :> 1) @@ VectorizeRequest(JStr("hello"))
    /\ Attempts(MainCall) = 2
    /\ promise[MainCall] = [state |-> "fulfilled", value |-> VectorizeBody]

(* The fields of a request config other than the retry counter. *)
RequestFields(cfg) == DOMAIN cfg \ {"_retryCount"}

(* C11: every retry reissues the request of the initial attempt: method,   *)
(* path, body and headers are equal, the only field that differs is the    *)
(* retry counter, which the i-th attempt carries as i - 1, so that the     *)
(* chain continues from it and does not restart at 0.                      *)
C11_RetryReissuesSameRequest ==
    \A c \in Calls :
        /\ Len(sent[c]) = Attempts(c)
        /\ \A i \in DOMAIN sent[c] :
              /\ RequestFields(sent[c][i]) = RequestFields(sent[c][1])
              /\ \A k \in RequestFields(sent[c][i]) : sent[c][i][k] = sent[c][1][k]
              /\ sent[c][i].method = sent[c][1].method
              /\ sent[c][i].url = sent[c][1].url
              /\ sent[c][i].headers = sent[c][1].headers
              /\ ("_retryCount" \in DOMAIN sent[c][i] <=> i > 1)
              /\ RetryCountOf(sent[c][i]) = i - 1
        /\ (sent[c] # <<>> =>
                LET last == sent[c][Len(sent[c])] IN
                /\ RequestFields(config[c]) = RequestFields(last)
                /\ \A k \in RequestFields(last) : config[c][k] = last[k]
                /\ RetryCountOf(config[c]) \in {RetryCountOf(last), RetryCountOf(last) + 1}
                /\ (inFlight[c] > 0 => config[c] = last))

C11_Witness ==
    /\ Len(sent[MainCall]) = 4
    /\ sent[MainCall][1] = SearchRequest(JStr("hello"), JUndef)
    /\ sent[MainCall][4] = ("_retryCount" :> 3) @@ sent[MainCall][1]
    /\ Rejected(MainCall)

(* C12: each public operation issues its fixed method, path and body:     *)
(* vectorize, saveContext and getInsight POST {text} to their paths,       *)
(* search POSTs {text, top_k} with top_k the caller's value or 3 when it   *)
(* is omitted, healthCheck GETs / without a body; every request of the     *)
(* call goes to that method and path.                                      *)
C12_OperationRequests ==
    \A c \in Calls :
        /\ (called[c] = NoCall <=> sent[c] = <<>>)
        /\ (called[c] # NoCall =>
              LET first == sent[c][1] IN
              /\ called[c].op = "vectorize" =>
                    /\ first.method = "post" /\ first.url = "/api/v1/vectorize"
                    /\ first.data = JObj([text |-> called[c].text])
              /\ called[c].op = "saveContext" =>
                    /\ first.method = "post" /\ first.url = "/api/v1/context"
                    /\ first.data = JObj([text |-> called[c].text])
              /\ called[c].op = "getInsight" =>
                    /\ first.method = "post" /\ first.url = "/api/v1/insight"
                    /\ first.data = JObj([text |-> called[c].text])
              /\ called[c].op = "search" =>
                    /\ first.method = "post" /\ first.url = "/api/v1/search"
                    /\ first.data =
                          JObj([text  |-> called[c].text,
                                top_k |-> IF called[c].topK = JUndef
                                          THEN JNum(3) ELSE called[c].topK])
              /\ called[c].op = "healthCheck" =>
                    /\ first.method = "get" /\ first.url = "/"
                    /\ "data" \notin DOMAIN first
              /\ called[c].op \in {"vectorize", "saveContext", "getInsight", "search", "healthCheck"}
              /\ \A i \in DOMAIN sent[c] :
                    sent[c][i].method = first.method /\ sent[c][i].url = first.url)

C12_Witness ==
    /\ called[MainCall] = [op |-> "search", text |-> JStr("hello"), topK |-> JUndef]
    /\ sent[MainCall][1].data = JObj([text |-> JStr("hello"), top_k |-> JNum(3)])
    /\ Fulfilled(MainCall)

(* C13: getErrorMessage returns a string, and does not throw, for every   *)
(* value the client rejects to a caller; for a normalized error record     *)
(* the string is its error.message.                                        *)
C13_GetErrorMessageReturnsString ==
    \A c \in Calls :
        shown[c] # NotShown =>
            /\ shown[c].kind = "return"
            /\ IsString(shown[c].value)
            /\ (IsAPIError(promise[c].value) =>
                    shown[c].value = promise[c].value.f.error.f.message)

----------------------------------------------------------------------------
(* The dashboard *)

(* A request of the analysis settles. *)
RequestSettles ==
    \/ \E outcome \in VectorizeOutcomes : VectorizeSettled(outcome)
    \/ \E outcome \in ContextOutcomes : ContextSettled(outcome)
    \/ \E outcome \in InsightOutcomes : InsightSettled(outcome)

DashNext ==
    \/ \E text \in Inputs : SetInput(text)
    \/ \E tab \in Tabs : SetActiveTab(tab)
    \/ \E outcome \in StatsOutcomes : MountStatsSettled(outcome)
    \/ ClickAnalyze
    \/ \E outcome \in VectorizeOutcomes : VectorizeSettled(outcome)
    \/ \E outcome \in ContextOutcomes : ContextSettled(outcome)
    \/ \E outcome \in InsightOutcomes : InsightSettled(outcome)
    \/ RequestNeverSettles
    \/ ClickGetSignals
    \/ \E outcome \in SignalsOutcomes : SignalsSettled(outcome)
    \/ ClickFetchNews
    \/ \E outcome \in NewsOutcomes : NewsSettled(outcome)
    \/ \E outcome \in StatsOutcomes : NewsStatsSettled(outcome)

DashSpec == DashboardInit /\ [][DashNext]_vars

(* A request of the analysis that is not one that never settles, settles. *)
FairDashSpec == DashSpec /\ WF_vars(RequestSettles)

----------------------------------------------------------------------------
(* Observations of the dashboard *)

LogOf == IF "log" \in DOMAIN run THEN run.log ELSE <<>>

IsPost(ev) == ev.e = "post"

(* The URLs posted by the invocation, in order. *)
PostUrls ==
    LET posts == SelectSeq(LogOf, IsPost) IN
    [i \in DOMAIN posts |-> posts[i].url]

RunWaiting == run.pc \in {"vectorize", "context", "insight"}

RunHung == run.pc = "hung"

RunInFlight == RunWaiting \/ RunHung

AllWhitespace(str) == \A i \in DOMAIN str : str[i] = " "

LogHas(ev) == \E i \in DOMAIN LogOf : LogOf[i] = ev

(* C14: whenever the result has saved = true, the context request of the   *)
(* analysis that set it completed successfully.                            *)
C14_SavedMeansContextSaved ==
    (HasField(result, "saved") /\ result.f.saved = JBool(TRUE)) =>
        \E i \in DOMAIN resultLog : resultLog[i] = EvSettled(ContextUrl, TRUE)

(* C15: handleAnalyze posts to vectorize, context, insight in this order,  *)
(* each after the previous request settled; a failed vectorize ends the    *)
(* analysis with the error message set and the result null; a failed       *)
(* context save is followed by the insight request; a failed insight sets  *)
(* no result; with a whitespace-only input nothing is requested and        *)
(* loading, error and result are unchanged.                                *)
C15_RequestOrder ==
    /\ [](LET log == LogOf IN
          /\ PostUrls \in {<<>>, <<VectorizeUrl>>, <<VectorizeUrl, ContextUrl>>,
                           <<VectorizeUrl, ContextUrl, InsightUrl>>}
          /\ \A i \in DOMAIN log :
                /\ (log[i].e = "post" /\ i > 1) => log[i - 1].e = "settled"
                /\ log[i].e = "post" => log[i].text = run.text
                /\ log[i].e = "settled" =>
                      i > 1 /\ log[i - 1].e = "post" /\ log[i - 1].url = log[i].url
                /\ log[i] = EvSettled(ContextUrl, FALSE) =>
                      i < Len(log) /\ log[i + 1] = EvPost(InsightUrl, run.text)
          /\ LogHas(EvSettled(VectorizeUrl, FALSE)) =>
                PostUrls = <<VectorizeUrl>> /\ run.pc = "done"
          /\ run.pc = "returned" => log = <<>> /\ AllWhitespace(run.text)
          /\ RunInFlight => ~AllWhitespace(run.text))
    /\ [][/\ (run.pc = "vectorize" /\ run'.pc = "done") =>
                errorMsg' = FailureMessage /\ result' = NoResult
          /\ (run.pc = "insight" /\ LogHas(EvSettled(InsightUrl, FALSE))') =>
                result' = NoResult /\ resultLog' = <<>> /\ errorMsg' = FailureMessage
          /\ (~RunInFlight /\ run' # run /\ AllWhitespace(input)) =>
                /\ run'.pc = "returned"
                /\ UNCHANGED <<loading, errorMsg, result>>]_vars

C15_Witness ==
    /\ run.pc = "returned" /\ run.text = <<" ">>
    /\ HasField(result, "saved")
    /\ \E i \in DOMAIN resultLog : resultLog[i] = EvSettled(ContextUrl, FALSE)
    /\ \E i \in DOMAIN resultLog : resultLog[i] = EvSettled(InsightUrl, TRUE)

(* C16: loading is true exactly while an analysis is in flight: it becomes *)
(* true when the analysis starts, is never false while one is in flight,   *)
(* and every analysis that started ends, on success and on every failure   *)
(* path, with loading false; the only analysis that does not end is one    *)
(* with a request that never settles.                                      *)
C16_LoadingWhileInFlight ==
    /\ [](loading <=> RunInFlight)
    /\ [][/\ (~RunInFlight /\ RunInFlight') => (~loading /\ loading')
          /\ (RunInFlight /\ ~RunInFlight') => (run'.pc = "done" /\ ~loading')]_vars
    /\ RunInFlight ~> ((run.pc = "done" /\ ~loading) \/ RunHung)

C16_Witness ==
    /\ run.pc = "done"
    /\ LogHas(EvSettled(ContextUrl, TRUE))
    /\ LogHas(EvSettled(InsightUrl, FALSE))
    /\ errorMsg = FailureMessage
    /\ ~loading

====
